---------------------------- MODULE Spec2Model ----------------------------
(***************************************************************************)
(* Model of hlgplus_info.py: the Annex-B NAL scanner (iter_nals), the      *)
(* emulation-prevention remover (remove_epb), the SEI message walker       *)
(* (parse_sei_messages), the T.35 / ST 2094-40 decoder, the access-unit    *)
(* tracker (AuTracker) and the aggregation loop and verdict of cmd_info.   *)
(* Bytes are integers 0..255, byte strings are sequences of bytes, and     *)
(* Python's 0-based half-open slices are modelled by Slice.                *)
(***************************************************************************)
EXTENDS Integers, Sequences, FiniteSets, TLC

VARIABLES
    pc,                 \* position of the running function
    file_exists,        \* os.path.exists(args.input)
    data,               \* the input buffer read by cmd_info
    i, j, k,            \* iter_nals locals
    ranges,             \* the [j, k) offsets of the slices iter_nals yielded
    nals,               \* list(iter_nals(data))
    err, exit_code,     \* error(): message printed and sys.exit status
    b, out, passes,     \* remove_epb: argument, result, number of passes run
    rbsp, sei_msgs,     \* parse_sei_messages: argument, pairs yielded
    use_aud, au, ret,   \* AuTracker fields and the last value feed returned
    pos,                \* number of NAL units the cmd_info loop has consumed
    pending,            \* SEI messages of the current NAL not yet handled
    agg,                \* cmd_info's aggregation locals
    report              \* what cmd_info printed

scanVars == <<file_exists, data, i, j, k, ranges>>
pureVars == <<b, out, passes, rbsp, sei_msgs>>
trkVars  == <<use_aud, au, ret>>
infoVars == <<pos, pending, agg, report>>
vars == <<pc, file_exists, data, i, j, k, ranges, nals, err, exit_code,
          b, out, passes, rbsp, sei_msgs, use_aud, au, ret,
          pos, pending, agg, report>>

-----------------------------------------------------------------------------
(* Bounds of the model.                                                    *)
MaxDataLen == 9
MaxEpbLen == 5
MaxSeiPayload == 2
MaxNals == 3

-----------------------------------------------------------------------------
(* Program constants.                                                      *)
START3 == <<0, 0, 1>>
START4 == <<0, 0, 0, 1>>
NAL_AUD == 35
NAL_PREFIX_SEI == 39
SEI_USER_DATA_REGISTERED_ITU_T_T35 == 4
T35_COUNTRY_CODE == 181
T35_PROVIDER_CODE == 60

-----------------------------------------------------------------------------
(* Python built-ins.                                                       *)
Min(x, y) == IF x <= y THEN x ELSE y
Max(x, y) == IF x >= y THEN x ELSE y

\* s[lo:hi] for 0 <= lo, clipped to the length of s
Slice(s, lo, hi) == SubSeq(s, lo + 1, Min(hi, Len(s)))

\* s[p] with a 0-based index
At(s, p) == s[p + 1]

RECURSIVE Pow2(_)
Pow2(e) == IF e = 0 THEN 1 ELSE 2 * Pow2(e - 1)

RECURSIVE SeqsUpTo(_, _)
SeqsUpTo(S, len) ==
    IF len = 0 THEN {<<>>}
    ELSE LET shorter == SeqsUpTo(S, len - 1)
         IN  shorter \cup {Append(s, x) : s \in {t \in shorter : Len(t) = len - 1}, x \in S}

NoReport == [printed |-> FALSE, total_aus |-> 0, msgs |-> 0, aus_with_meta |-> 0,
             coverage |-> <<0, 1>>, meta_type |-> "", longest_run |-> 0,
             app_id_mode |-> -1, window0 |-> "", verdict |-> ""]

-----------------------------------------------------------------------------
(* iter_nals and the start of cmd_info.                                    *)

\* the bytes the scanner is run on
ScanBytes == {0, 1, 170}
ScanInputs == SeqsUpTo(ScanBytes, MaxDataLen)

\* length of the start code iter_nals recognises at offset p, 0 if none
StartCodeLen_sc3(d, p) ==
    IF Slice(d, p, p + 4) = START4 THEN 3
    ELSE IF Slice(d, p, p + 3) = START3 THEN 3
    ELSE 0

StartCodeLen(d, p) ==
    IF Slice(d, p, p + 4) = START4 THEN 4
    ELSE IF Slice(d, p, p + 3) = START3 THEN 3
    ELSE 0

\* the condition of the inner while loop
BodyContinues(d, p) ==
    /\ p < Len(d) - 4
    /\ Slice(d, p, p + 3) \notin {START3, START4}

InitScan ==
    /\ pc = "open"
    /\ \/ file_exists = FALSE /\ data = <<>>
       \/ file_exists = TRUE /\ data \in ScanInputs
    /\ i = 0 /\ j = 0 /\ k = 0
    /\ ranges = <<>>
    /\ nals = <<>>
    /\ err = "" /\ exit_code = 0
    /\ b = <<>> /\ out = <<>> /\ passes = 0
    /\ rbsp = <<>> /\ sei_msgs = <<>>
    /\ use_aud = FALSE /\ au = -1 /\ ret = <<-1, FALSE>>
    /\ pos = 0 /\ pending = <<>> /\ agg = <<>> /\ report = NoReport

\* cmd_info: the existence test, then the read and the call of iter_nals
OpenInput ==
    /\ pc = "open"
    /\ IF file_exists
       THEN /\ pc' = "scan"
            /\ i' = 0
            /\ UNCHANGED <<err, exit_code>>
       ELSE /\ pc' = "error"
            /\ err' = "Input file not found"
            /\ exit_code' = 1
            /\ i' = i
    /\ UNCHANGED <<file_exists, data, j, k, ranges, nals>>
    /\ UNCHANGED <<pureVars, trkVars, infoVars>>

\* outer loop, no start code at i: i += 1
ScanSkip ==
    /\ pc = "scan"
    /\ i < Len(data) - 4
    /\ StartCodeLen(data, i) = 0
    /\ i' = i + 1
    /\ UNCHANGED <<pc, file_exists, data, j, k, ranges, nals, err, exit_code>>
    /\ UNCHANGED <<pureVars, trkVars, infoVars>>

\* outer loop, start code at i: j = i + sc; k = j
ScanMatch ==
    /\ pc = "scan"
    /\ i < Len(data) - 4
    /\ StartCodeLen(data, i) # 0
    /\ j' = i + StartCodeLen(data, i)
    /\ k' = i + StartCodeLen(data, i)
    /\ pc' = "body"
    /\ UNCHANGED <<file_exists, data, i, ranges, nals, err, exit_code>>
    /\ UNCHANGED <<pureVars, trkVars, infoVars>>

\* inner loop: k += 1
ScanBody ==
    /\ pc = "body"
    /\ BodyContinues(data, k)
    /\ k' = k + 1
    /\ UNCHANGED <<pc, file_exists, data, i, j, ranges, nals, err, exit_code>>
    /\ UNCHANGED <<pureVars, trkVars, infoVars>>

\* inner loop left: yield data[j:k]; i = k
ScanYield ==
    /\ pc = "body"
    /\ ~BodyContinues(data, k)
    /\ nals' = Append(nals, Slice(data, j, k))
    /\ ranges' = Append(ranges, <<j, k>>)
    /\ i' = k
    /\ pc' = "scan"
    /\ UNCHANGED <<file_exists, data, j, k, err, exit_code>>
    /\ UNCHANGED <<pureVars, trkVars, infoVars>>

\* outer loop left: the generator is exhausted, list() returns
ScanEnd ==
    /\ pc = "scan"
    /\ ~(i < Len(data) - 4)
    /\ pc' = "listed"
    /\ UNCHANGED <<file_exists, data, i, j, k, ranges, nals, err, exit_code>>
    /\ UNCHANGED <<pureVars, trkVars, infoVars>>

\* not nals
NoNals_never(l) == FALSE

NoNals(l) == l = <<>>

\* cmd_info: if not nals: error("No Annex-B NAL units found")
CheckNals ==
    /\ pc = "listed"
    /\ IF NoNals(nals)
       THEN /\ pc' = "error"
            /\ err' = "No Annex-B NAL units found"
            /\ exit_code' = 1
       ELSE /\ pc' = "scanned"
            /\ UNCHANGED <<err, exit_code>>
    /\ UNCHANGED <<file_exists, data, i, j, k, ranges, nals>>
    /\ UNCHANGED <<pureVars, trkVars, infoVars>>

NextScan ==
    \/ OpenInput
    \/ ScanSkip
    \/ ScanMatch
    \/ ScanBody
    \/ ScanYield
    \/ ScanEnd
    \/ CheckNals

SpecScan == InitScan /\ [][NextScan]_vars

\* cmd_info is one sequential thread: while a next statement exists it is
\* executed, which is weak fairness of the next-state relation
FairSpecScan == InitScan /\ [][NextScan]_vars /\ WF_vars(NextScan)

-----------------------------------------------------------------------------
(* remove_epb.                                                             *)

\* zeros = zeros + 1 if x == 0 else 0, capped at 2
NextZeros_nocap(zeros, x) == IF x = 0 THEN zeros + 1 ELSE 0

NextZeros(zeros, x) ==
    LET z == IF x = 0 THEN zeros + 1 ELSE 0
    IN  IF z > 2 THEN 2 ELSE z

\* the for loop of remove_epb from position p (1-based) of bs on
RECURSIVE remove_epb_loop(_, _, _, _)
remove_epb_loop(bs, p, zeros, acc) ==
    IF p > Len(bs) THEN acc
    ELSE IF zeros = 2 /\ bs[p] = 3
         THEN remove_epb_loop(bs, p + 1, 0, acc)
         ELSE remove_epb_loop(bs, p + 1, NextZeros(zeros, bs[p]), Append(acc, bs[p]))

remove_epb(bs) == remove_epb_loop(bs, 1, 0, <<>>)

\* the bytes remove_epb is run on
EpbBytes == {0, 1, 3}
EpbInputs == SeqsUpTo(EpbBytes, MaxEpbLen)

InitEpb ==
    /\ pc = "epb"
    /\ b \in EpbInputs
    /\ out = <<>> /\ passes = 0
    /\ file_exists = FALSE /\ data = <<>>
    /\ i = 0 /\ j = 0 /\ k = 0
    /\ ranges = <<>>
    /\ nals = <<>>
    /\ err = "" /\ exit_code = 0
    /\ rbsp = <<>> /\ sei_msgs = <<>>
    /\ use_aud = FALSE /\ au = -1 /\ ret = <<-1, FALSE>>
    /\ pos = 0 /\ pending = <<>> /\ agg = <<>> /\ report = NoReport

\* one more pass of remove_epb: over b first, then over its own output
RunRemoveEpb ==
    /\ pc = "epb"
    /\ passes < 2
    /\ out' = remove_epb(IF passes = 0 THEN b ELSE out)
    /\ passes' = passes + 1
    /\ UNCHANGED <<pc, b, rbsp, sei_msgs, nals, err, exit_code>>
    /\ UNCHANGED <<scanVars, trkVars, infoVars>>

NextEpb == RunRemoveEpb

SpecEpb == InitEpb /\ [][NextEpb]_vars

-----------------------------------------------------------------------------
(* parse_sei_messages.                                                     *)

\* index after the run of 0xFF bytes that starts at index p (0-based)
RECURSIVE SkipFF(_, _)
SkipFF(bs, p) ==
    IF p < Len(bs) /\ At(bs, p) = 255 THEN SkipFF(bs, p + 1) ELSE p

\* the value of an escaped field: 255 per 0xFF byte, plus the closing byte
EscapedValue_256(count, last) == 256 * count + last

EscapedValue(count, last) == 255 * count + last

\* the while loop of parse_sei_messages from index p (0-based) on
RECURSIVE parse_sei_loop(_, _, _)
parse_sei_loop(bs, p, acc) ==
    LET n == Len(bs)
        p1 == SkipFF(bs, p)
        p2 == p1 + 1
        p3 == SkipFF(bs, p2)
        p4 == p3 + 1
        pt == EscapedValue(p1 - p, At(bs, p1))
        sz == EscapedValue(p3 - p2, At(bs, p3))
    IN  IF ~(p < n) THEN acc
        ELSE IF p = n - 1 /\ At(bs, p) = 128 THEN acc
        ELSE IF p1 >= n THEN acc
        ELSE IF p3 >= n THEN acc
        ELSE IF p4 + sz > n THEN acc
        ELSE parse_sei_loop(bs, p4 + sz, Append(acc, <<pt, Slice(bs, p4, p4 + sz)>>))

parse_sei_messages(bs) == parse_sei_loop(bs, 0, <<>>)

\* n copies of byte x
Fill(x, n) == [q \in 1..n |-> x]

\* the escape encoding of a payload type or size
EscapeEncode(v) == Fill(255, v \div 255) \o <<v % 255>>

\* an RBSP holding one SEI message of type t with payload p
SeiEncode(t, p) == EscapeEncode(t) \o EscapeEncode(Len(p)) \o p

SeiBytes == {4, 128, 255}
SeiTypes == {0, 4, 128, 254, 255, 260, 510}
SeiLongSizes == {255, 260}
SeiPayloads ==
    SeqsUpTo(SeiBytes, MaxSeiPayload) \cup {Fill(x, n) : x \in SeiBytes, n \in SeiLongSizes}

InitSei ==
    /\ pc = "sei"
    /\ rbsp \in {SeiEncode(t, p) : t \in SeiTypes, p \in SeiPayloads}
    /\ sei_msgs = <<>>
    /\ b = <<>> /\ out = <<>> /\ passes = 0
    /\ file_exists = FALSE /\ data = <<>>
    /\ i = 0 /\ j = 0 /\ k = 0
    /\ ranges = <<>>
    /\ nals = <<>>
    /\ err = "" /\ exit_code = 0
    /\ use_aud = FALSE /\ au = -1 /\ ret = <<-1, FALSE>>
    /\ pos = 0 /\ pending = <<>> /\ agg = <<>> /\ report = NoReport

\* the walk of rbsp, every pair it yields collected
WalkSei ==
    /\ pc = "sei"
    /\ sei_msgs' = parse_sei_messages(rbsp)
    /\ pc' = "sei_done"
    /\ UNCHANGED <<rbsp, b, out, passes, nals, err, exit_code>>
    /\ UNCHANGED <<scanVars, trkVars, infoVars>>

NextSei == WalkSei

SpecSei == InitSei /\ [][NextSei]_vars

-----------------------------------------------------------------------------
(* NAL header, BitReader and the T.35 / ST 2094-40 decoders.               *)

\* (nal[0] >> 1) & 0x3F, -1 for an empty unit
nal_type(nal) == IF nal = <<>> THEN -1 ELSE (nal[1] \div 2) % 64

is_vcl(t) == 0 <= t /\ t <= 31

\* the bit loop of BitReader.read_bits: n more bits from bit position bp
RECURSIVE read_bits_loop(_, _, _, _)
read_bits_loop(bs, bp, n, v) ==
    IF n = 0 THEN v
    ELSE read_bits_loop(bs, bp + 1, n - 1,
                        2 * v + ((At(bs, bp \div 8) \div Pow2(7 - (bp % 8))) % 2))

\* BitReader.read_bits: ok is FALSE where the code raises ValueError
read_bits(bs, bp, n) ==
    IF n <= 0 THEN [ok |-> TRUE, v |-> 0, bitpos |-> bp]
    ELSE IF Len(bs) * 8 - bp < n THEN [ok |-> FALSE, v |-> 0, bitpos |-> bp]
    ELSE [ok |-> TRUE, v |-> read_bits_loop(bs, bp, n, 0), bitpos |-> bp + n]

first_slice_flag_from_vcl(nal) ==
    IF Len(nal) < 3 THEN FALSE
    ELSE LET r == remove_epb(Slice(nal, 2, Len(nal)))
         IN  IF r = <<>> THEN FALSE
             ELSE read_bits(r, 0, 1).ok /\ read_bits(r, 0, 1).v # 0

\* what parse_itu_t_t35 returns; ok is FALSE for None
NoT35 == [ok |-> FALSE, country_code |-> 0, provider_code |-> 0, oriented_code |-> 0,
          app_id |-> 0, app_ver |-> 0, app_data |-> <<>>]

parse_itu_t_t35(payload) ==
    IF Len(payload) < 1 THEN NoT35
    ELSE LET cc == At(payload, 0)
             ext == cc = 255
             idx == IF ext THEN 2 ELSE 1
         IN  IF ext /\ 1 >= Len(payload) THEN NoT35
             ELSE IF idx + 2 > Len(payload) THEN NoT35
             ELSE IF idx + 4 > Len(payload) THEN NoT35
             ELSE IF idx + 6 > Len(payload) THEN NoT35
             ELSE [ok |-> TRUE,
                   country_code |-> cc,
                   provider_code |-> 256 * At(payload, idx) + At(payload, idx + 1),
                   oriented_code |-> 256 * At(payload, idx + 2) + At(payload, idx + 3),
                   app_id |-> At(payload, idx + 4),
                   app_ver |-> At(payload, idx + 5),
                   app_data |-> Slice(payload, idx + 6, Len(payload))]

is_st2094_app4_signature(t35) ==
    /\ t35.ok
    /\ t35.country_code = T35_COUNTRY_CODE
    /\ t35.provider_code = T35_PROVIDER_CODE

\* what parse_app4_window0_stats returns; kind is "none" for None, "note" for
\* the dictionary with the note, "maxscl" for the one with the statistics
NoStats == [kind |-> "none", num_windows |-> 0, targeted_max_lum |-> 0,
            maxscl |-> <<0, 0, 0>>, average_maxrgb |-> 0]

parse_app4_window0_stats(app_data) ==
    IF app_data = <<>> THEN NoStats
    ELSE LET nw == read_bits(app_data, 0, 2)
             tl == read_bits(app_data, nw.bitpos, 27)
             pf == read_bits(app_data, tl.bitpos, 1)
             m0 == read_bits(app_data, pf.bitpos, 17)
             m1 == read_bits(app_data, m0.bitpos, 17)
             m2 == read_bits(app_data, m1.bitpos, 17)
             avg == read_bits(app_data, m2.bitpos, 17)
         IN  IF ~nw.ok \/ ~tl.ok \/ ~pf.ok THEN NoStats
             ELSE IF pf.v # 0
                  THEN [NoStats EXCEPT !.kind = "note", !.num_windows = nw.v,
                                       !.targeted_max_lum = tl.v]
             ELSE IF ~m0.ok \/ ~m1.ok \/ ~m2.ok \/ ~avg.ok THEN NoStats
             ELSE [kind |-> "maxscl", num_windows |-> nw.v, targeted_max_lum |-> tl.v,
                   maxscl |-> <<m0.v, m1.v, m2.v>>, average_maxrgb |-> avg.v]

-----------------------------------------------------------------------------
(* The NAL units the tracker and cmd_info are run on. None holds a start   *)
(* code, so each is a unit iter_nals can yield.                            *)

\* access unit delimiter (type 35)
NalAud == <<70, 1, 16>>
\* slice (type 1) with first_slice_segment_in_pic_flag set
NalVclFirst == <<2, 1, 128>>
\* slice (type 1) with the flag clear
NalVclCont == <<2, 1, 64>>
\* the T.35 header of an ST 2094-40 message: B5, 003C, oriented 0001, app 4 v1
T35Header == <<181, 0, 60, 0, 1, 4, 1>>
\* app_data with actual_peak_luminance_flag clear and the four 17-bit fields
AppDataFull == <<64, 0, 0, 1, 0, 16, 32, 48, 64, 80, 96, 112, 128>>
\* AppDataFull with the emulation prevention byte the encoder inserts
AppDataFullEscaped == <<64, 0, 0, 3, 1, 0, 16, 32, 48, 64, 80, 96, 112, 128>>
\* app_data with actual_peak_luminance_flag set
AppDataPeak == <<128, 0, 0, 4>>
PayloadA == T35Header \o AppDataFull
PayloadB == T35Header \o AppDataPeak
\* a signature-matching record whose app_data ends inside targeted_max_lum
PayloadShortBody == T35Header \o <<192>>
\* prefix SEI (type 39): one ST 2094-40 message, then the RBSP stop byte
NalSeiA == <<78, 1, 4, 20>> \o T35Header \o AppDataFullEscaped \o <<128>>
\* prefix SEI: a message of type 1, then an ST 2094-40 message
NalSeiB == <<78, 1, 1, 1, 170, 4, 11>> \o PayloadB \o <<128>>
\* prefix SEI whose message announces 20 payload bytes and holds 3
NalSeiTrunc == <<78, 1, 4, 20, 181, 0, 60>>
\* prefix SEI whose T.35 payload ends after the provider code
NalSeiBadT35 == <<78, 1, 4, 3, 181, 0, 60, 128>>
\* prefix SEI with the short-bodied ST 2094-40 message
NalSeiShortBody == <<78, 1, 4, 8>> \o PayloadShortBody \o <<128>>
\* prefix SEI with a T.35 record of another provider (escaped country code,
\* app_id 1)
NalSeiOther == <<78, 1, 4, 8, 255, 18, 0, 49, 0, 2, 1, 7, 128>>

NalCatalogue == {NalAud, NalVclFirst, NalVclCont, NalSeiA, NalSeiB, NalSeiTrunc,
                 NalSeiBadT35, NalSeiShortBody, NalSeiOther}

-----------------------------------------------------------------------------
(* AuTracker.                                                              *)

\* AuTracker.feed on a tracker in state (use, a): the new index and the
\* started flag
AuTracker_feed_any_unit(use, a, nal) ==
    IF use
    THEN IF nal_type(nal) = NAL_AUD
         THEN [au |-> a + 1, started |-> TRUE]
         ELSE [au |-> a, started |-> FALSE]
    ELSE IF a = -1 THEN [au |-> 0, started |-> TRUE]
         ELSE IF first_slice_flag_from_vcl(nal) THEN [au |-> a + 1, started |-> TRUE]
         ELSE [au |-> a, started |-> FALSE]

AuTracker_feed(use, a, nal) ==
    IF use
    THEN IF nal_type(nal) = NAL_AUD
         THEN [au |-> a + 1, started |-> TRUE]
         ELSE [au |-> a, started |-> FALSE]
    ELSE IF is_vcl(nal_type(nal))
         THEN IF a = -1 THEN [au |-> 0, started |-> TRUE]
              ELSE IF first_slice_flag_from_vcl(nal) THEN [au |-> a + 1, started |-> TRUE]
              ELSE [au |-> a, started |-> FALSE]
         ELSE [au |-> a, started |-> FALSE]

NalLists == SeqsUpTo(NalCatalogue, MaxNals)

\* AuTracker(use_aud) for either mode, and a list of units to feed it
InitAu ==
    /\ pc = "track"
    /\ use_aud \in BOOLEAN
    /\ au = -1
    /\ ret = <<-1, FALSE>>
    /\ nals \in NalLists
    /\ pos = 0
    /\ pending = <<>> /\ agg = <<>> /\ report = NoReport
    /\ file_exists = FALSE /\ data = <<>>
    /\ i = 0 /\ j = 0 /\ k = 0
    /\ ranges = <<>>
    /\ err = "" /\ exit_code = 0
    /\ b = <<>> /\ out = <<>> /\ passes = 0
    /\ rbsp = <<>> /\ sei_msgs = <<>>

\* tracker.feed(nal) for the next unit of the list
TrackerFeed ==
    /\ pc = "track"
    /\ pos < Len(nals)
    /\ LET r == AuTracker_feed(use_aud, au, nals[pos + 1])
       IN  /\ au' = r.au
           /\ ret' = <<r.au, r.started>>
    /\ pos' = pos + 1
    /\ UNCHANGED <<pc, use_aud, nals, pending, agg, report, err, exit_code>>
    /\ UNCHANGED <<scanVars, pureVars>>

NextAu == TrackerFeed

SpecAu == InitAu /\ [][NextAu]_vars

-----------------------------------------------------------------------------
(* cmd_info after the scan: the loop over the NAL units and the report.    *)
(* A defaultdict(int) is the sequence of its <<key, count>> items in       *)
(* insertion order; None is -1 for a mode, <<>> for last_payload, and the  *)
(* record NoStats for window0.                                             *)

detect_aud(l) == \E n \in 1..Len(l) : nal_type(l[n]) = NAL_AUD

safe_div(x, y) == IF y # 0 THEN <<x, y>> ELSE <<0, 1>>

\* d[key] += 1
DictInc(d, key) ==
    IF \E n \in 1..Len(d) : d[n][1] = key
    THEN [n \in 1..Len(d) |-> IF d[n][1] = key THEN <<key, d[n][2] + 1>> ELSE d[n]]
    ELSE Append(d, <<key, 1>>)

\* max(counts.items(), key=lambda x: x[1])[0]: the first item with the
\* largest count
mode_from_counts(counts) ==
    IF counts = <<>> THEN -1
    ELSE LET best == CHOOSE n \in 1..Len(counts) :
                        /\ \A m \in 1..Len(counts) : counts[m][2] <= counts[n][2]
                        /\ \A m \in 1..(n - 1) : counts[m][2] < counts[n][2]
         IN  counts[best][1]

\* the locals cmd_info sets before its loop
InitAgg == [total_aus |-> 0, vcl_nals |-> 0, sei_prefix_nals |-> 0, msgs |-> 0,
            msgs_before_first_vcl |-> 0, seen_first_vcl |-> FALSE, per_au |-> <<>>,
            unique_payloads |-> {}, last_payload |-> <<>>, run_len |-> 0,
            runs |-> <<>>, oriented_counts |-> <<>>, app_id_counts |-> <<>>,
            app_ver_counts |-> <<>>, window0 |-> NoStats, current_au |-> -1]

\* the loop body up to the SEI walk, r being what tracker.feed returned
FeedUpdate(a, r, nal) ==
    LET a1 == IF r.started
              THEN [a EXCEPT !.current_au = r.au,
                             !.total_aus = Max(a.total_aus, r.au + 1)]
              ELSE a
        a2 == IF is_vcl(nal_type(nal))
              THEN [a1 EXCEPT !.vcl_nals = @ + 1, !.seen_first_vcl = TRUE]
              ELSE a1
    IN  IF nal_type(nal) = NAL_PREFIX_SEI /\ Len(nal) > 2
        THEN [a2 EXCEPT !.sei_prefix_nals = @ + 1]
        ELSE a2

\* the SEI messages the loop body walks for this unit
MessagesOf(nal) ==
    IF nal_type(nal) = NAL_PREFIX_SEI /\ Len(nal) > 2
    THEN parse_sei_messages(remove_epb(Slice(nal, 2, Len(nal))))
    ELSE <<>>

\* the three header tallies
TallyHeader(a, t35) ==
    [a EXCEPT !.oriented_counts = DictInc(@, t35.oriented_code),
              !.app_id_counts = DictInc(@, t35.app_id),
              !.app_ver_counts = DictInc(@, t35.app_ver)]

\* the run tracking of one counted payload
RunUpdate(a, payload) ==
    IF a.last_payload = <<payload>>
    THEN [a EXCEPT !.run_len = @ + 1]
    ELSE [a EXCEPT !.runs = IF a.run_len > 0 THEN Append(@, a.run_len) ELSE @,
                   !.last_payload = <<payload>>,
                   !.run_len = 1]

\* a message that passed the signature test is counted
CountMessage(a, payload) ==
    RunUpdate([a EXCEPT !.msgs = @ + 1,
                        !.per_au = DictInc(@, a.current_au),
                        !.msgs_before_first_vcl = IF a.seen_first_vcl THEN @ ELSE @ + 1,
                        !.unique_payloads = @ \cup {payload}],
              payload)

\* window0 is taken from the first counted message whose body parses
SampleWindow0(a, t35) ==
    IF a.window0.kind = "none"
    THEN [a EXCEPT !.window0 = parse_app4_window0_stats(t35.app_data)]
    ELSE a

\* the body of the loop over the messages of a unit
HandleMessage_count_before_parse(a, pt, payload) ==
    IF pt # SEI_USER_DATA_REGISTERED_ITU_T_T35 THEN a
    ELSE LET t35 == parse_itu_t_t35(payload)
         IN  IF ~t35.ok THEN CountMessage(a, payload)
             ELSE IF ~is_st2094_app4_signature(t35) THEN TallyHeader(a, t35)
             ELSE SampleWindow0(CountMessage(TallyHeader(a, t35), payload), t35)

HandleMessage(a, pt, payload) ==
    IF pt # SEI_USER_DATA_REGISTERED_ITU_T_T35 THEN a
    ELSE LET t35 == parse_itu_t_t35(payload)
         IN  IF ~t35.ok THEN a
             ELSE IF ~is_st2094_app4_signature(t35) THEN TallyHeader(a, t35)
             ELSE SampleWindow0(CountMessage(TallyHeader(a, t35), payload), t35)

\* if run_len > 0: runs.append(run_len), after the loop
FlushRun_skipped(runs, run_len) == runs

FlushRun(runs, run_len) == IF run_len > 0 THEN Append(runs, run_len) ELSE runs

\* sum(1 for _, c in per_au.items() if c > 0)
AusWithMeta(per_au) == Cardinality({n \in 1..Len(per_au) : per_au[n][2] > 0})

\* max(runs) if runs else 0
MaxOf(l) ==
    IF l = <<>> THEN 0
    ELSE CHOOSE x \in {l[n] : n \in 1..Len(l)} : \A n \in 1..Len(l) : l[n] <= x

Verdict(total_aus, aus_with_meta, msgs, app_id_mode) ==
    IF total_aus > 0 /\ aus_with_meta = total_aus /\ msgs > 0 /\ app_id_mode = 4
    THEN "PASS"
    ELSE IF msgs > 0 THEN "PARTIAL"
    ELSE "FAIL"

\* what cmd_info prints from the locals a, runs being flushed already
BuildReport(a) ==
    LET aus_with_meta == AusWithMeta(a.per_au)
        app_id_mode == mode_from_counts(a.app_id_counts)
    IN  [printed |-> TRUE,
         total_aus |-> a.total_aus,
         msgs |-> a.msgs,
         aus_with_meta |-> aus_with_meta,
         coverage |-> IF a.total_aus # 0 THEN safe_div(aus_with_meta, a.total_aus)
                      ELSE <<0, 1>>,
         meta_type |-> IF a.msgs > 0 /\ Cardinality(a.unique_payloads) = 1 THEN "Static"
                       ELSE IF Cardinality(a.unique_payloads) > 1 THEN "Dynamic"
                       ELSE "Unknown",
         longest_run |-> MaxOf(a.runs),
         app_id_mode |-> app_id_mode,
         window0 |-> a.window0.kind,
         verdict |-> Verdict(a.total_aus, aus_with_meta, a.msgs, app_id_mode)]

\* cmd_info holds a non-empty list of units
InitInfo ==
    /\ pc = "scanned"
    /\ nals \in NalLists \ {<<>>}
    /\ use_aud = FALSE /\ au = -1 /\ ret = <<-1, FALSE>>
    /\ pos = 0 /\ pending = <<>> /\ agg = <<>> /\ report = NoReport
    /\ file_exists = TRUE /\ data = <<>>
    /\ i = 0 /\ j = 0 /\ k = 0
    /\ ranges = <<>>
    /\ err = "" /\ exit_code = 0
    /\ b = <<>> /\ out = <<>> /\ passes = 0
    /\ rbsp = <<>> /\ sei_msgs = <<>>

\* has_aud = detect_aud(nals); tracker = AuTracker(has_aud); the locals
BeginInfo ==
    /\ pc = "scanned"
    /\ use_aud' = detect_aud(nals)
    /\ au' = -1
    /\ agg' = InitAgg
    /\ pos' = 0
    /\ pc' = "loop"
    /\ UNCHANGED <<ret, nals, pending, report, err, exit_code>>
    /\ UNCHANGED <<scanVars, pureVars>>

\* for nal in nals: the body up to the walk of the unit's SEI messages
FeedNal ==
    /\ pc = "loop"
    /\ pending = <<>>
    /\ pos < Len(nals)
    /\ LET nal == nals[pos + 1]
           r == AuTracker_feed(use_aud, au, nal)
       IN  /\ au' = r.au
           /\ ret' = <<r.au, r.started>>
           /\ agg' = FeedUpdate(agg, r, nal)
           /\ pending' = MessagesOf(nal)
    /\ pos' = pos + 1
    /\ UNCHANGED <<pc, use_aud, nals, report, err, exit_code>>
    /\ UNCHANGED <<scanVars, pureVars>>

\* for pt, payload in parse_sei_messages(rbsp): one message
HandleMsg ==
    /\ pc = "loop"
    /\ pending # <<>>
    /\ agg' = HandleMessage(agg, Head(pending)[1], Head(pending)[2])
    /\ pending' = Tail(pending)
    /\ UNCHANGED <<pc, pos, nals, report, err, exit_code>>
    /\ UNCHANGED <<scanVars, pureVars, trkVars>>

\* after the loop: the last run, the derived numbers, the report
Finish ==
    /\ pc = "loop"
    /\ pending = <<>>
    /\ pos = Len(nals)
    /\ agg' = [agg EXCEPT !.runs = FlushRun(agg.runs, agg.run_len)]
    /\ report' = BuildReport([agg EXCEPT !.runs = FlushRun(agg.runs, agg.run_len)])
    /\ pc' = "done"
    /\ UNCHANGED <<pos, pending, nals, err, exit_code>>
    /\ UNCHANGED <<scanVars, pureVars, trkVars>>

NextInfo ==
    \/ BeginInfo
    \/ FeedNal
    \/ HandleMsg
    \/ Finish

SpecInfo == InitInfo /\ [][NextInfo]_vars

-----------------------------------------------------------------------------
(* Properties of the scanner.                                              *)

\* a 3-byte or 4-byte start code begins at offset p of d
IsStartAt(d, p) ==
    \/ Slice(d, p, p + 3) = <<0, 0, 1>>
    \/ Slice(d, p, p + 4) = <<0, 0, 0, 1>>

HasStartCode(d) == \E p \in 0..(Len(d) - 1) : IsStartAt(d, p)

\* offset of the first start code at or after p, the length of d if none
NextStartOrEnd(d, p) ==
    LET hits == {e \in p..Len(d) : e = Len(d) \/ IsStartAt(d, e)}
    IN  CHOOSE e \in hits : \A f \in hits : e <= f

\* C1: every NAL unit iter_nals yields is exactly the bytes from right after
\* its start code up to the first byte of the next start code, or up to the
\* end of the buffer for the last one.
C1_NalIsWholeBody ==
    \A n \in 1..Len(ranges) :
        /\ ranges[n][2] = NextStartOrEnd(data, ranges[n][1])
        /\ nals[n] = Slice(data, ranges[n][1], NextStartOrEnd(data, ranges[n][1]))

\* C2: the yielded ranges lie in the buffer in increasing offset order without
\* overlapping, each is the slice that was yielded, and each begins right
\* after a 3-byte or 4-byte start code.
C2_NoOverlapAfterStartCode ==
    /\ Len(nals) = Len(ranges)
    /\ \A n \in 1..Len(ranges) :
        LET s == ranges[n][1]
            e == ranges[n][2]
        IN  /\ 0 <= s /\ s <= e /\ e <= Len(data)
            /\ nals[n] = Slice(data, s, e)
            /\ \/ s >= 3 /\ Slice(data, s - 3, s) = <<0, 0, 1>>
               \/ s >= 4 /\ Slice(data, s - 4, s) = <<0, 0, 0, 1>>
            /\ n > 1 => ranges[n - 1][2] <= s

C2_Witness ==
    /\ pc = "scanned"
    /\ Len(ranges) >= 2
    /\ ranges[1][2] > ranges[1][1]

ScanFinished == pc \in {"error", "scanned"}

C8_Safe ==
    (file_exists /\ ~HasStartCode(data)) =>
        /\ nals = <<>>
        /\ pc # "scanned"
        /\ ScanFinished =>
              /\ err = "No Annex-B NAL units found"
              /\ exit_code = 1
              /\ report = NoReport
              /\ agg = <<>>

\* C8: a buffer that is empty or holds no start code yields no NAL unit and
\* cmd_info ends in the fatal "no NAL units" state with exit code 1 and no
\* report; and the scan of every buffer terminates.
C8_NoNalsIsFatalAndScanTerminates == []C8_Safe /\ <>ScanFinished

C8_Witness ==
    /\ file_exists
    /\ ~HasStartCode(data)
    /\ i > 0
    /\ pc = "error"
    /\ exit_code = 1

-----------------------------------------------------------------------------
(* Properties of remove_epb.                                               *)

\* bs holds a 0x03 byte right after two 0x00 bytes
HasEpbSeq(bs) ==
    \E p \in 1..(Len(bs) - 2) : bs[p] = 0 /\ bs[p + 1] = 0 /\ bs[p + 2] = 3

\* C3 as stated: a second pass of remove_epb returns what the first pass did,
\* and the first pass leaves no 0x03 right after two 0x00 bytes.
C3_Idempotent ==
    /\ passes = 2 => out = remove_epb(b)
    /\ passes = 1 => ~HasEpbSeq(out)

\* C3 amended: the first pass may leave a 0x03 right after two 0x00 bytes, and
\* the second pass returns what the first did exactly when it left none.
C3_IdempotentIffNoEpbLeft ==
    passes = 2 => (out = remove_epb(b) <=> ~HasEpbSeq(remove_epb(b)))

C3_Witness ==
    /\ passes = 2
    /\ Len(remove_epb(b)) < Len(b)
    /\ ~HasEpbSeq(remove_epb(b))
    /\ out = remove_epb(b)

-----------------------------------------------------------------------------
(* Properties of parse_sei_messages.                                       *)

\* C4: an RBSP made of the escape encoding of a type T, the escape encoding of
\* a size S and S payload bytes is walked into exactly the one pair
\* (T, payload), values of 255 and more included.
C4_OneMessageRoundTrip ==
    \A t \in SeiTypes, p \in SeiPayloads :
        (pc = "sei_done" /\ rbsp = SeiEncode(t, p)) => sei_msgs = << <<t, p>> >>

C4_Witness ==
    /\ pc = "sei_done"
    /\ rbsp = <<255, 5, 255, 5>> \o Fill(128, 260)
    /\ Len(sei_msgs) = 1
    /\ sei_msgs[1][1] = 260
    /\ Len(sei_msgs[1][2]) = 260

-----------------------------------------------------------------------------
(* Properties of AuTracker.                                                *)

\* one call of feed, on the unit nals[pos']
C5_FeedStep ==
    LET t == nal_type(nals[pos'])
    IN  /\ \/ au' = au /\ ret' = <<au, FALSE>>
           \/ au' = au + 1 /\ ret' = <<au + 1, TRUE>>
        /\ au' # au => IF use_aud THEN t = 35 ELSE t \in 0..31

\* C5: in both modes the AU index starts at -1 and each feed either leaves it
\* and returns started = False or raises it by exactly 1 and returns
\* started = True; only a type-35 unit (AUD mode) or a VCL unit (heuristic
\* mode) changes it.
C5_AuIndexStepsByOne ==
    /\ au = -1
    /\ [][pos' = pos + 1 => C5_FeedStep]_vars

C5_Witness ==
    /\ pc = "track"
    /\ ~use_aud
    /\ pos = 3
    /\ nals[3] = NalVclCont
    /\ au = 1
    /\ ret = <<1, FALSE>>

-----------------------------------------------------------------------------
(* Properties of cmd_info.                                                 *)

\* the count a defaultdict(int) holds for key, 0 for a key never inserted
CountOf(d, key) ==
    IF \E n \in 1..Len(d) : d[n][1] = key
    THEN (CHOOSE pair \in {d[n] : n \in 1..Len(d)} : pair[1] = key)[2]
    ELSE 0

\* the AU indices of 0..total_aus-1 that have a message attributed to them
AusCovered == {a \in 0..(agg.total_aus - 1) : CountOf(agg.per_au, a) > 0}

\* C6: PASS is printed only if there is an AU, every AU index of
\* 0..total_aus-1 has a message attributed to it, there is a message, and the
\* app id mode is 4.
C6_PassOnlyIfEveryAuCovered ==
    (pc = "done" /\ report.verdict = "PASS") =>
        /\ agg.total_aus > 0
        /\ \A a \in 0..(agg.total_aus - 1) : CountOf(agg.per_au, a) > 0
        /\ agg.msgs > 0
        /\ report.app_id_mode = 4

\* C9: the coverage numerator counts only the AU indices of 0..total_aus-1
\* that have a message, so it never exceeds the total, and it and the coverage
\* are 0 when there is no AU.
C9_NumeratorCountsOnlyAus ==
    pc = "done" =>
        /\ report.aus_with_meta = Cardinality(AusCovered)
        /\ report.aus_with_meta <= report.total_aus
        /\ report.coverage[1] <= report.coverage[2]
        /\ report.total_aus = 0 => (report.aus_with_meta = 0 /\ report.coverage[1] = 0)

\* the message is one cmd_info counts: T.35, header parsed, signature matched
IsCounted(msg) ==
    /\ msg[1] = 4
    /\ parse_itu_t_t35(msg[2]).ok
    /\ is_st2094_app4_signature(parse_itu_t_t35(msg[2]))

\* the payloads of the counted messages of the units l, in stream order
RECURSIVE CountedPayloads(_)
CountedPayloads(l) ==
    IF l = <<>> THEN <<>>
    ELSE LET ms == SelectSeq(MessagesOf(Head(l)), IsCounted)
         IN  [n \in 1..Len(ms) |-> ms[n][2]] \o CountedPayloads(Tail(l))

\* length of the longest block of equal consecutive elements of l
LongestBlock(l) ==
    LET blocks == {<<lo, hi>> \in (1..Len(l)) \X (1..Len(l)) :
                     lo <= hi /\ \A n \in lo..hi : l[n] = l[lo]}
    IN  IF l = <<>> THEN 0
        ELSE CHOOSE len \in 1..Len(l) :
                /\ \E blk \in blocks : blk[2] - blk[1] + 1 = len
                /\ \A blk \in blocks : blk[2] - blk[1] + 1 <= len

RECURSIVE SumSeq(_)
SumSeq(l) == IF l = <<>> THEN 0 ELSE Head(l) + SumSeq(Tail(l))

\* C10: the longest identical run reported is the length of the longest block
\* of consecutive equal payloads among the counted messages of the stream, the
\* recorded runs (the flushed last one included) add up to the message count,
\* and the longest run is 0 exactly when there is no message.
C10_LongestRunIsLongestBlock ==
    pc = "done" =>
        /\ report.msgs = Len(CountedPayloads(nals))
        /\ report.longest_run = LongestBlock(CountedPayloads(nals))
        /\ SumSeq(agg.runs) = report.msgs
        /\ report.longest_run = 0 <=> report.msgs = 0

C10_Witness ==
    /\ pc = "done"
    /\ nals = <<NalSeiA, NalSeiA, NalSeiB>>
    /\ agg.runs = <<2, 1>>
    /\ report.longest_run = 2

\* the aggregates the claim names: message count, per-AU counts, unique
\* payloads and run tracking
Counted(a) == <<a.msgs, a.per_au, a.msgs_before_first_vcl, a.unique_payloads,
                a.last_payload, a.run_len, a.runs>>

\* a T.35 payload too short for country code (and extension byte), provider
\* code, oriented code, app id and app version
MalformedT35(payload) ==
    \/ Len(payload) < 7
    \/ payload[1] = 255 /\ Len(payload) < 8

\* a prefix SEI unit whose first message announces more payload bytes than
\* the unit holds
TruncatedSei(nal) ==
    /\ Len(nal) > 4
    /\ nal_type(nal) = 39
    /\ LET r == remove_epb(SubSeq(nal, 3, Len(nal)))
       IN  /\ r[1] # 255 /\ r[2] # 255
           /\ 2 + r[2] > Len(r)

\* a T.35 payload with the ST 2094-40 signature and fewer than the 4 bytes of
\* app_data that num_windows, targeted_max_lum and the peak flag take
ShortBody(payload) ==
    /\ Len(payload) >= 7
    /\ Len(payload) < 11
    /\ payload[1] = 181 /\ payload[2] = 0 /\ payload[3] = 60

\* the step handles the message at the head of pending
HandlesHead == pc = "loop" /\ pending # <<>> /\ pending' = Tail(pending)

\* the step feeds the unit nals[pos']
FeedsUnit == pc = "loop" /\ pos' = pos + 1

\* C7 as stated: a truncated SEI message, a malformed T.35 header and a
\* signature-matching record whose app_data is exhausted each leave the
\* aggregates unchanged, and the loop goes on.
C7_EveryFailureIsDropped ==
    [][/\ (FeedsUnit /\ TruncatedSei(nals[pos'])) =>
              (pending' = <<>> /\ Counted(agg') = Counted(agg) /\ pc' = "loop")
       /\ (HandlesHead /\ Head(pending)[1] = 4 /\ MalformedT35(Head(pending)[2])) =>
              (Counted(agg') = Counted(agg) /\ pc' = "loop")
       /\ (HandlesHead /\ Head(pending)[1] = 4 /\ ShortBody(Head(pending)[2])) =>
              (Counted(agg') = Counted(agg) /\ pc' = "loop")]_vars

\* C7 amended: a truncated SEI message and a malformed T.35 header leave the
\* aggregates unchanged and the loop goes on; a signature-matching record
\* whose app_data is exhausted is counted as a message of the current AU, and
\* only the window-0 sample stays unset.
C7_HeaderFailuresDroppedBodyFailureCounted ==
    [][/\ (FeedsUnit /\ TruncatedSei(nals[pos'])) =>
              (pending' = <<>> /\ Counted(agg') = Counted(agg) /\ pc' = "loop")
       /\ (HandlesHead /\ Head(pending)[1] = 4 /\ MalformedT35(Head(pending)[2])) =>
              (agg' = agg /\ pc' = "loop")
       /\ (HandlesHead /\ Head(pending)[1] = 4 /\ ShortBody(Head(pending)[2])) =>
              /\ agg'.msgs = agg.msgs + 1
              /\ CountOf(agg'.per_au, agg.current_au) = CountOf(agg.per_au, agg.current_au) + 1
              /\ Head(pending)[2] \in agg'.unique_payloads
              /\ agg'.last_payload = <<Head(pending)[2]>>
              /\ agg'.window0 = agg.window0
              /\ pc' = "loop"]_vars

C7_Witness ==
    /\ pc = "done"
    /\ nals = <<NalSeiTrunc, NalSeiBadT35, NalSeiShortBody>>
    /\ agg.sei_prefix_nals = 3
    /\ report.msgs = 1
    /\ report.window0 = "none"

=============================================================================
